---- MODULE Spec2Model ----
(***************************************************************************)
(* Model of the uchiha engine (src/src/engine.cxx, src/src/engine.hxx):    *)
(* the shader class, texture_impl, engine_impl and the poll loop of main,  *)
(* running against the SDL window/event services and an OpenGL 3.3 core    *)
(* context.  Every engine operation is one action; the GL calls it makes   *)
(* are listed in source order and interpreted by Do, and the calls of the  *)
(* last operation are kept in `last.log`.                                  *)
(***************************************************************************)
EXTENDS Integers, Sequences, FiniteSets, TLC

VARIABLES engine, sdl, gl, textures, queue, event, main, last

vars == <<engine, sdl, gl, textures, queue, event, main, last>>

----------------------------------------------------------------------------
(* Bounds of the model.                                                    *)

MaxTriangles == 2
MaxTextures == 1
MaxQueue == 2

----------------------------------------------------------------------------
(* Data model: engine.hxx.                                                 *)

\* sizeof(float)
SizeofFloat == 4

\* number of float fields of uchiha::vertex (x y z r g b a tx ty)
VertexFloats == 9

\* sizeof(uchiha::vertex)
SizeofVertex == VertexFloats * SizeofFloat

\* a vertex value: k stands for the nine floats of one uchiha::vertex
Vtx(k) == k

\* uchiha::triangle: v[0], v[1], v[2]
Triangle(v1, v2, v3) == <<v1, v2, v3>>

\* the triangles main builds; tr3 repeats the last two vertices of tr2
tr0 == Triangle(Vtx(1), Vtx(2), Vtx(3))

tr1 == Triangle(Vtx(4), Vtx(5), Vtx(6))

tr2 == Triangle(Vtx(7), Vtx(8), Vtx(9))

tr3 == Triangle(Vtx(10), Vtx(8), Vtx(9))

\* the triangles a caller submits
Triangles == {tr0, tr1}

RECURSIVE SeqsUpTo(_, _)
SeqsUpTo(S, n) ==
  IF n = 0 THEN {<<>>}
  ELSE LET shorter == SeqsUpTo(S, n - 1)
       IN shorter \cup {Append(s, x) : s \in {t \in shorter : Len(t) = n - 1}, x \in S}

\* the values of a std::vector<uchiha::triangle> argument
VertexBuffers == SeqsUpTo(Triangles, MaxTriangles)

\* the vertices of the storage of a std::vector<triangle>, in memory order
RECURSIVE Storage(_)
Storage(vb) ==
  IF vb = <<>> THEN <<>>
  ELSE <<Head(vb)[1], Head(vb)[2], Head(vb)[3]>> \o Storage(Tail(vb))

Take(s, n) == SubSeq(s, 1, IF n < Len(s) THEN n ELSE Len(s))

\* Body of the value of x: x is evaluated once, before Body uses it
Let(x, Body(_)) == CHOOSE r \in {Body(v) : v \in {x}} : TRUE

----------------------------------------------------------------------------
(* The OpenGL context: the state the engine's calls read and write.        *)

EmptyFn == [x \in {} |-> 0]

GLInit ==
  [ loaded |-> FALSE,
    names |-> 0,
    shaders |-> EmptyFn,
    progs |-> EmptyFn,
    current_program |-> 0,
    nbuf |-> 0,
    array_buffer |-> 0,
    data |-> EmptyFn,
    nvao |-> 0,
    vertex_array |-> 0,
    enabled |-> {},
    pointers |-> EmptyFn,
    ntex |-> 0,
    active_texture |-> 0,
    units |-> EmptyFn,
    images |-> EmptyFn,
    sampler |-> EmptyFn,
    error |-> "GL_NO_ERROR" ]

Fail(g, e) == [g EXCEPT !.error = e]

Put(f, k, v) == (k :> v) @@ f

Drop(f, k) == [x \in (DOMAIN f) \ {k} |-> f[x]]

\* uniforms declared by a fragment source of init
UniformsOf(src) == IF src = "fragment_shader_02_src" THEN {"s_texture"} ELSE {}

ProgramUniforms(g, p) ==
  UNION {UniformsOf(g.shaders[s].src) : s \in g.progs[p].attached \cap DOMAIN g.shaders}

\* the effect of GL call c on a context g whose error flag is clear
Call(g, c) ==
  CASE c.f = "glCreateShader" ->
         [g EXCEPT !.names = @ + 1,
                   !.shaders = Put(@, g.names + 1,
                                   [type |-> c.type, src |-> "", compiled |-> FALSE])]
    [] c.f = "glShaderSource" ->
         IF c.shader \in DOMAIN g.shaders
         THEN [g EXCEPT !.shaders[c.shader].src = c.src]
         ELSE Fail(g, "GL_INVALID_VALUE")
    [] c.f = "glCompileShader" ->
         IF c.shader \in DOMAIN g.shaders
         THEN [g EXCEPT !.shaders[c.shader].compiled = c.status]
         ELSE Fail(g, "GL_INVALID_VALUE")
    [] c.f = "glDeleteShader" ->
         IF c.shader \in DOMAIN g.shaders
         THEN [g EXCEPT !.shaders = Drop(@, c.shader)]
         ELSE Fail(g, "GL_INVALID_VALUE")
    [] c.f = "glCreateProgram" ->
         IF c.created
         THEN [g EXCEPT !.names = @ + 1,
                        !.progs = Put(@, g.names + 1,
                                      [attached |-> {}, bound |-> {}, linked |-> FALSE,
                                       attribs |-> {}, uniforms |-> {}])]
         ELSE g
    [] c.f = "glAttachShader" ->
         IF c.program \in DOMAIN g.progs /\ c.shader \in DOMAIN g.shaders
         THEN [g EXCEPT !.progs[c.program].attached = @ \cup {c.shader}]
         ELSE Fail(g, "GL_INVALID_VALUE")
    [] c.f = "glBindAttribLocation" ->
         IF c.program \in DOMAIN g.progs
         THEN [g EXCEPT !.progs[c.program].bound =
                          {b \in @ : b[2] # c.name} \cup {<<c.index, c.name>>}]
         ELSE Fail(g, "GL_INVALID_VALUE")
    [] c.f = "glLinkProgram" ->
         IF c.program \in DOMAIN g.progs
         THEN [g EXCEPT !.progs[c.program].linked = c.status,
                        !.progs[c.program].attribs =
                          IF c.status THEN g.progs[c.program].bound ELSE {},
                        !.progs[c.program].uniforms =
                          IF c.status THEN ProgramUniforms(g, c.program) ELSE {}]
         ELSE Fail(g, "GL_INVALID_VALUE")
    [] c.f = "glDeleteProgram" ->
         IF c.program = 0 THEN g
         ELSE IF c.program \in DOMAIN g.progs
         THEN [g EXCEPT !.progs = Drop(@, c.program)]
         ELSE Fail(g, "GL_INVALID_VALUE")
    [] c.f = "glUseProgram" ->
         IF c.program = 0 THEN [g EXCEPT !.current_program = 0]
         ELSE IF c.program \notin DOMAIN g.progs THEN Fail(g, "GL_INVALID_VALUE")
         ELSE IF ~g.progs[c.program].linked THEN Fail(g, "GL_INVALID_OPERATION")
         ELSE [g EXCEPT !.current_program = c.program]
    [] c.f = "glUniform1i" ->
         IF c.location = -1 THEN g
         ELSE IF g.current_program = 0 THEN Fail(g, "GL_INVALID_OPERATION")
         ELSE [g EXCEPT !.sampler = Put(@, g.current_program, c.value)]
    [] c.f = "glGenTextures" ->
         [g EXCEPT !.ntex = @ + 1]
    [] c.f = "glActiveTexture" ->
         [g EXCEPT !.active_texture = c.unit]
    [] c.f = "glBindTexture" ->
         IF c.texture = 0 \/ c.texture <= g.ntex
         THEN [g EXCEPT !.units = Put(@, g.active_texture, c.texture)]
         ELSE Fail(g, "GL_INVALID_OPERATION")
    [] c.f = "glTexImage2D" ->
         IF g.active_texture \in DOMAIN g.units /\ g.units[g.active_texture] # 0
         THEN [g EXCEPT !.images = Put(@, g.units[g.active_texture],
                                       [width |-> c.width, height |-> c.height,
                                        mipmap |-> FALSE])]
         ELSE Fail(g, "GL_INVALID_OPERATION")
    [] c.f = "glGenerateMipmap" ->
         IF /\ g.active_texture \in DOMAIN g.units
            /\ g.units[g.active_texture] \in DOMAIN g.images
         THEN [g EXCEPT !.images[g.units[g.active_texture]].mipmap = TRUE]
         ELSE Fail(g, "GL_INVALID_OPERATION")
    [] c.f = "glGenBuffers" ->
         [g EXCEPT !.nbuf = @ + 1]
    [] c.f = "glBindBuffer" ->
         [g EXCEPT !.array_buffer = c.buffer,
                   !.data = IF c.buffer = 0 \/ c.buffer \in DOMAIN g.data
                            THEN @ ELSE Put(@, c.buffer, <<>>)]
    [] c.f = "glGenVertexArrays" ->
         [g EXCEPT !.nvao = @ + 1]
    [] c.f = "glBindVertexArray" ->
         IF c.array <= g.nvao
         THEN [g EXCEPT !.vertex_array = c.array]
         ELSE Fail(g, "GL_INVALID_OPERATION")
    [] c.f = "glBufferData" ->
         IF g.array_buffer = 0 THEN Fail(g, "GL_INVALID_OPERATION")
         ELSE [g EXCEPT !.data =
                 Put(@, g.array_buffer, Take(c.memory, c.size \div SizeofVertex))]
    [] c.f = "glBufferSubData" ->
         IF g.array_buffer = 0 THEN Fail(g, "GL_INVALID_OPERATION")
         ELSE IF c.offset + c.size > Len(g.data[g.array_buffer]) * SizeofVertex
         THEN Fail(g, "GL_INVALID_VALUE")
         ELSE [g EXCEPT !.data[g.array_buffer] =
                 [i \in 1..Len(@) |->
                    IF i > c.offset \div SizeofVertex
                       /\ i <= (c.offset + c.size) \div SizeofVertex
                    THEN c.memory[i - c.offset \div SizeofVertex] ELSE @[i]]]
    [] c.f = "glEnableVertexAttribArray" ->
         IF g.vertex_array = 0 THEN Fail(g, "GL_INVALID_OPERATION")
         ELSE [g EXCEPT !.enabled = @ \cup {c.index}]
    [] c.f = "glDisableVertexAttribArray" ->
         IF g.vertex_array = 0 THEN Fail(g, "GL_INVALID_OPERATION")
         ELSE [g EXCEPT !.enabled = @ \ {c.index}]
    [] c.f = "glVertexAttribPointer" ->
         IF g.vertex_array = 0 \/ g.array_buffer = 0 THEN Fail(g, "GL_INVALID_OPERATION")
         ELSE [g EXCEPT !.pointers =
                 Put(@, c.index, [size |-> c.size, stride |-> c.stride,
                                  offset |-> c.offset, buffer |-> g.array_buffer])]
    [] OTHER -> g

\* one GL call: the error flag then tells the error of this call alone
Do(g0, c0) ==
  CHOOSE r \in {Call(g, c) : g \in {[g0 EXCEPT !.error = "GL_NO_ERROR"]}, c \in {c0}} : TRUE

\* one entry of an operation's call log: the call and the context after it
Entry(c, g) ==
  [call |-> c, error |-> g.error, current_program |-> g.current_program,
   enabled |-> g.enabled]

\* run the calls cs[i], cs[i + 1], ... in order; each call and the context it
\* leaves are bound as values before the next call is looked at
RECURSIVE RunFrom(_, _, _, _)
RunFrom(g, log, cs, i) ==
  IF i > Len(cs) THEN [gl |-> g, log |-> log]
  ELSE CHOOSE r \in {RunFrom(g1, Append(log, Entry(c, g1)), cs, i + 1) :
                       c \in {cs[i]}, g1 \in {Do(g, cs[i])}} : TRUE

\* run the calls of an operation, in order, from context g and log so far
Run(g, log, cs) ==
  CHOOSE r \in {RunFrom(g0, log0, cs0, 1) : g0 \in {g}, log0 \in {log}, cs0 \in {cs}} : TRUE

----------------------------------------------------------------------------
(* class shader.                                                           *)

\* what the driver answers during one shader construction
ShaderOutcomes ==
  [vertex : BOOLEAN, fragment : BOOLEAN, program : {TRUE}, link : BOOLEAN]
  \cup {[vertex |-> TRUE, fragment |-> TRUE, program |-> FALSE, link |-> FALSE]}

\* shader::init_shader: the calls, given the driver's compile status
init_shader(shader, shader_src, compile_status) ==
  << [f |-> "glShaderSource", shader |-> shader, src |-> shader_src],
     [f |-> "glCompileShader", shader |-> shader, status |-> compile_status],
     [f |-> "glGetShaderiv", shader |-> shader, pname |-> "GL_COMPILE_STATUS"] >>
  \o IF ~compile_status
     THEN << [f |-> "glGetShaderiv", shader |-> shader, pname |-> "GL_INFO_LOG_LENGTH"],
             [f |-> "glGetShaderInfoLog", shader |-> shader],
             [f |-> "glDeleteShader", shader |-> shader] >>
     ELSE <<>>

\* the loop of the constructor over its attribute list
RECURSIVE BindAttributes(_, _)
BindAttributes(program, attributes) ==
  IF attributes = <<>> THEN <<>>
  ELSE << [f |-> "glBindAttribLocation", program |-> program,
           index |-> Head(attributes)[1], name |-> Head(attributes)[2]] >>
       \o BindAttributes(program, Tail(attributes))

\* a constructor that links first and binds the attribute locations afterwards
AttachLinkBind(program, vertex_shader, fragment_shader, attributes, status) ==
  << [f |-> "glAttachShader", program |-> program, shader |-> vertex_shader],
     [f |-> "glAttachShader", program |-> program, shader |-> fragment_shader],
     [f |-> "glLinkProgram", program |-> program, status |-> status] >>
  \o BindAttributes(program, attributes)

\* the part of the constructor from glAttachShader to glLinkProgram
AttachBindLink(program, vertex_shader, fragment_shader, attributes, status) ==
  << [f |-> "glAttachShader", program |-> program, shader |-> vertex_shader],
     [f |-> "glAttachShader", program |-> program, shader |-> fragment_shader] >>
  \o BindAttributes(program, attributes)
  \o << [f |-> "glLinkProgram", program |-> program, status |-> status] >>

\* shader::shader: the object built, the calls made and the lines written to
\* std::cerr, for a context g and the driver's answers o
shader(g, vertex_shader_src, fragment_shader_src, attributes, o) ==
  LET vertex_shader == g.names + 1
      fragment_shader == g.names + 2
      program == IF o.program THEN g.names + 3 ELSE 0
      linked_status == program # 0 /\ o.link
  IN [ obj |-> [vertex_shader |-> vertex_shader,
                fragment_shader |-> fragment_shader,
                program |-> program],
       calls |->
         << [f |-> "glCreateShader", type |-> "GL_VERTEX_SHADER"] >>
         \o init_shader(vertex_shader, vertex_shader_src, o.vertex)
         \o << [f |-> "glCreateShader", type |-> "GL_FRAGMENT_SHADER"] >>
         \o init_shader(fragment_shader, fragment_shader_src, o.fragment)
         \o << [f |-> "glCreateProgram", created |-> o.program] >>
         \o AttachBindLink(program, vertex_shader, fragment_shader, attributes, o.link)
         \o << [f |-> "glGetProgramiv", program |-> program, pname |-> "GL_LINK_STATUS"] >>
         \o IF ~linked_status
            THEN << [f |-> "glGetProgramiv", program |-> program,
                     pname |-> "GL_INFO_LOG_LENGTH"],
                    [f |-> "glGetProgramInfoLog", program |-> program],
                    [f |-> "glDeleteProgram", program |-> program] >>
            ELSE <<>>,
       cerr |->
         (IF ~o.vertex THEN <<"error: Failed to create vertex shader">> ELSE <<>>)
         \o (IF ~o.fragment THEN <<"error: Failed to create fragment shader">> ELSE <<>>)
         \o (IF program = 0 THEN <<"error: Failed to create program">> ELSE <<>>)
         \o (IF ~linked_status THEN <<"error: Failed to link program">> ELSE <<>>) ]

\* shader::use
use(s) == << [f |-> "glUseProgram", program |-> s.program] >>

\* glGetUniformLocation as set_uniform calls it
UniformLocation(g, program, name) ==
  IF program \in DOMAIN g.progs /\ name \in g.progs[program].uniforms THEN 0 ELSE -1

\* shader::set_uniform, t a texture object
set_uniform(g, s, attr, t) ==
  << [f |-> "glGetUniformLocation", program |-> s.program, name |-> attr],
     [f |-> "glActiveTexture", unit |-> t.textrure_handle],
     [f |-> "glBindTexture", texture |-> t.textrure_handle],
     [f |-> "glUniform1i", location |-> UniformLocation(g, s.program, attr),
      value |-> 0 + t.textrure_handle] >>

----------------------------------------------------------------------------
(* class texture_impl.                                                     *)

Uint16(n) == n % 65536

\* texture_impl::texture_impl
texture_impl(width, height, handle) ==
  [texture_width |-> Uint16(width), texture_height |-> Uint16(height),
   textrure_handle |-> handle]

----------------------------------------------------------------------------
(* class engine_impl: init.                                                *)

\* the members of a newly constructed engine_impl
EngineInit ==
  [ window |-> "nullptr",
    window_width |-> 0,
    window_height |-> 0,
    context |-> "nullptr",
    gl_default_vbo |-> 0,
    shaders |-> <<>>,
    vertex_attribute_object |-> 0 ]

\* the SDL library: the subsystems, the one window and its GL context
SDLInit ==
  [inited |-> FALSE, window |-> "none", context |-> "none"]

\* where init can fail, in source order, or "none"
InitSteps == {"version", "SDL_Init", "SDL_CreateWindow", "SDL_GL_CreateContext",
              "gladLoadGLLoader", "none"}

\* what the platform answers during one init
ShadersOk == [vertex |-> TRUE, fragment |-> TRUE, program |-> TRUE, link |-> TRUE]

InitOutcomes ==
  [fail : InitSteps \ {"none"}, shader_01 : {ShadersOk}, shader_02 : {ShadersOk}]
  \cup [fail : {"none"}, shader_01 : ShaderOutcomes, shader_02 : ShaderOutcomes]

\* the attribute lists init gives to the two shaders
attributes_01 == << <<0, "a_position">>, <<1, "a_color">> >>

attributes_02 == << <<0, "a_position">>, <<1, "a_color">>, <<2, "a_tex_coord">> >>

\* init from glGenBuffers to the last glBufferSubData
init_buffers(g) ==
  Run(g, <<>>,
      << [f |-> "glGenBuffers"],
         [f |-> "glBindBuffer", buffer |-> g.nbuf + 1],
         [f |-> "glGenVertexArrays"],
         [f |-> "glBindVertexArray", array |-> g.nvao + 1],
         [f |-> "glBufferData", size |-> 0, memory |-> <<>>],
         [f |-> "glBufferSubData", offset |-> 0, size |-> 0, memory |-> <<>>] >>)

\* the end of init, after the second shader is in use
init_tail(e) ==
  << [f |-> "glEnable", cap |-> "GL_BLEND"],
     [f |-> "glBlendFunc"],
     [f |-> "glClearColor"],
     [f |-> "glViewport", width |-> e.window_width, height |-> e.window_height] >>

\* init from glGenBuffers on: the GL context is current and its functions loaded
init_gl(e, g, o) ==
  Let(init_buffers(g), LAMBDA r0 :
  Let(shader(r0.gl, "vertex_shader_01_src", "fragment_shader_01_src",
             attributes_01, o.shader_01), LAMBDA s1 :
  Let(Run(r0.gl, r0.log, s1.calls \o use(s1.obj)), LAMBDA r1 :
  Let(shader(r1.gl, "vertex_shader_02_src", "fragment_shader_02_src",
             attributes_02, o.shader_02), LAMBDA s2 :
  Let(Run(r1.gl, r1.log, s2.calls \o use(s2.obj) \o init_tail(e)), LAMBDA r2 :
    [ engine |-> [e EXCEPT !.gl_default_vbo = g.nbuf + 1,
                           !.vertex_attribute_object = g.nvao + 1,
                           !.shaders = e.shaders \o <<s1.obj, s2.obj>>],
      gl |-> r2.gl,
      log |-> r2.log,
      cerr |-> s1.cerr \o s2.cerr ])))))

\* engine_impl::init: the state it leaves and what it returns
init_result(e, s, g, ww, wh, fullscreen, o) ==
  LET window_flags == IF fullscreen
                      THEN {"SDL_WINDOW_OPENGL", "SDL_WINDOW_FULLSCREEN_DESKTOP"}
                      ELSE {"SDL_WINDOW_OPENGL"}
      e1 == [e EXCEPT !.window = IF o.fail = "SDL_CreateWindow" THEN "nullptr" ELSE "window",
                      !.window_width = ww,
                      !.window_height = wh]
      e2 == [e1 EXCEPT !.context =
                         IF o.fail = "SDL_GL_CreateContext" THEN "nullptr" ELSE "context"]
      inited == [s EXCEPT !.inited = TRUE]
      quit == [s EXCEPT !.inited = FALSE]
  IN CASE o.fail = "version" ->
            [ret |-> FALSE, engine |-> e, sdl |-> s, gl |-> g, log |-> <<>>,
             cerr |-> <<"error: There are different versions of compiled and linked SDL">>]
       [] o.fail = "SDL_Init" ->
            [ret |-> FALSE, engine |-> e, sdl |-> s, gl |-> g, log |-> <<>>,
             cerr |-> <<"error: Failed to init SDL">>]
       [] o.fail = "SDL_CreateWindow" ->
            [ret |-> FALSE, engine |-> e1, sdl |-> quit, gl |-> g, log |-> <<>>,
             cerr |-> <<"error: Failed to create window">>]
       [] o.fail = "SDL_GL_CreateContext" ->
            [ret |-> FALSE, engine |-> e2,
             sdl |-> [quit EXCEPT !.window = "destroyed"],
             gl |-> g, log |-> <<>>,
             cerr |-> <<"error: Failed to create context">>]
       [] o.fail = "gladLoadGLLoader" ->
            [ret |-> FALSE, engine |-> e2,
             sdl |-> [quit EXCEPT !.window = "destroyed", !.context = "deleted"],
             gl |-> g, log |-> <<>>,
             cerr |-> <<"error: Failed to load GL functions">>]
       [] OTHER ->
            Let(init_gl(e2, [g EXCEPT !.loaded = TRUE], o), LAMBDA r :
               [ret |-> TRUE, engine |-> r.engine,
                sdl |-> [inited EXCEPT !.window = "live", !.context = "live"],
                gl |-> r.gl,
                log |-> <<Entry([f |-> "SDL_CreateWindow", w |-> ww, h |-> wh,
                                 flags |-> window_flags], g)>> \o r.log,
                cerr |-> r.cerr])

----------------------------------------------------------------------------
(* class engine_impl: create_texture.                                      *)

\* values an uninitialised int can hold
UninitInts == {0, 65537}

\* what stbi_load leaves in data, width and height: a decoded image, or a
\* null buffer with width and height never written
DecodeOutcomes ==
  {[data |-> "pixels", width |-> 2, height |-> 1]}
  \cup [data : {"null"}, width : UninitInts, height : UninitInts]

\* engine_impl::create_texture: the calls, given the decode outcome d
create_texture_calls(g, path, d) ==
  LET texture == g.ntex + 1
  IN << [f |-> "glGenTextures"],
        [f |-> "glBindTexture", texture |-> texture],
        [f |-> "glTexParameteri", pname |-> "GL_TEXTURE_WRAP_S", param |-> "GL_REPEAT"],
        [f |-> "glTexParameteri", pname |-> "GL_TEXTURE_WRAP_T", param |-> "GL_REPEAT"],
        [f |-> "glTexParameteri", pname |-> "GL_TEXTURE_MIN_FILTER", param |-> "GL_LINEAR"],
        [f |-> "glTexParameteri", pname |-> "GL_TEXTURE_MAG_FILTER", param |-> "GL_LINEAR"],
        [f |-> "stbi_load", path |-> path, data |-> d.data] >>
     \o (IF d.data # "null"
         THEN << [f |-> "glTexImage2D", width |-> d.width, height |-> d.height],
                 [f |-> "glGenerateMipmap"] >>
         ELSE <<>>)
     \o << [f |-> "stbi_image_free"] >>

\* engine_impl::create_texture: the object it returns
create_texture_object(g, d) == texture_impl(d.width, d.height, g.ntex + 1)

----------------------------------------------------------------------------
(* class engine_impl: the two render overloads.                            *)

\* static_cast<uint32_t>: the low 32 bits, as two 16-bit halves
Uint32(n) == (n % 65536) + 65536 * ((n \div 65536) % 65536)

\* static_cast<GLsizei>: the low 32 bits read as a signed int
GLsizei(n) ==
  IF Uint32(n) \div 65536 >= 32768 THEN Uint32(n) - 65536 * 65536 ELSE Uint32(n)

\* a size that forgets the three vertices of a triangle
data_size_one_vertex_each(vertex_buffer) == Uint32(Len(vertex_buffer) * SizeofVertex)

\* data_size_in_bytes of both overloads
data_size_in_bytes(vertex_buffer) == Uint32((Len(vertex_buffer) * 3) * SizeofVertex)

\* num_of_vertexes of both overloads
num_of_vertexes(vertex_buffer) == GLsizei(Len(vertex_buffer) * 3)

\* the values &vertex_buffer.data()->v[0] can have: the first vertex of the
\* storage, or, for an empty vector, whatever data() returns
PointerOutcomes(vertex_buffer) ==
  IF vertex_buffer = <<>> THEN {"nullptr", "no_element"} ELSE {"v[0]"}

\* whether a render overload evaluates vertex_buffer.data()->v[0]: the
\* initialiser of t has no condition on the size
first_vertex_evaluated(vertex_buffer) == TRUE

\* glBufferData and glBufferSubData of both overloads
upload(vertex_buffer, t) ==
  << [f |-> "glBufferData", size |-> data_size_in_bytes(vertex_buffer),
      memory |-> Storage(vertex_buffer), pointer |-> t],
     [f |-> "glBufferSubData", offset |-> 0, size |-> data_size_in_bytes(vertex_buffer),
      memory |-> Storage(vertex_buffer), pointer |-> t] >>

\* a slot described as tightly packed: the stride of its own floats only
attribute_tightly_packed(index, size, offset) ==
  << [f |-> "glEnableVertexAttribArray", index |-> index],
     [f |-> "glVertexAttribPointer", index |-> index, size |-> size,
      stride |-> size * SizeofFloat, offset |-> offset] >>

\* glEnableVertexAttribArray and glVertexAttribPointer of one slot
attribute(index, size, offset) ==
  << [f |-> "glEnableVertexAttribArray", index |-> index],
     [f |-> "glVertexAttribPointer", index |-> index, size |-> size,
      stride |-> SizeofVertex, offset |-> offset] >>

\* engine_impl::render(vertex_buffer): the calls, t the pointer passed to GL
render_calls(e, vertex_buffer, t) ==
  use(e.shaders[1])
  \o upload(vertex_buffer, t)
  \o attribute(0, 3, 0)
  \o attribute(1, 4, SizeofFloat * 3)
  \o << [f |-> "glDrawArrays", first |-> 0, count |-> num_of_vertexes(vertex_buffer)],
        [f |-> "glDisableVertexAttribArray", index |-> 0],
        [f |-> "glDisableVertexAttribArray", index |-> 1] >>

\* a textured overload that leaves slot 2 enabled
render_texture_keeps_slot_2(e, g, vertex_buffer, tx, t) ==
  use(e.shaders[2])
  \o set_uniform(Run(g, <<>>, use(e.shaders[2])).gl, e.shaders[2], "s_texture", tx)
  \o upload(vertex_buffer, t)
  \o attribute(0, 3, 0)
  \o attribute(1, 4, SizeofFloat * 3)
  \o attribute(2, 2, SizeofFloat * 7)
  \o << [f |-> "glDrawArrays", first |-> 0, count |-> num_of_vertexes(vertex_buffer)],
        [f |-> "glDisableVertexAttribArray", index |-> 0],
        [f |-> "glDisableVertexAttribArray", index |-> 1] >>

\* engine_impl::render(vertex_buffer, tx): the calls
render_texture_calls(e, g, vertex_buffer, tx, t) ==
  use(e.shaders[2])
  \o set_uniform(Run(g, <<>>, use(e.shaders[2])).gl, e.shaders[2], "s_texture", tx)
  \o upload(vertex_buffer, t)
  \o attribute(0, 3, 0)
  \o attribute(1, 4, SizeofFloat * 3)
  \o attribute(2, 2, SizeofFloat * 7)
  \o << [f |-> "glDrawArrays", first |-> 0, count |-> num_of_vertexes(vertex_buffer)],
        [f |-> "glDisableVertexAttribArray", index |-> 0],
        [f |-> "glDisableVertexAttribArray", index |-> 1],
        [f |-> "glDisableVertexAttribArray", index |-> 2] >>

\* engine_impl::swap_buffers: the calls
swap_buffers_calls ==
  << [f |-> "SDL_GL_SwapWindow"], [f |-> "glClearColor"], [f |-> "glClear"] >>

----------------------------------------------------------------------------
(* The engine driven through its public operations.                        *)

Init ==
  /\ engine = EngineInit
  /\ sdl = SDLInit
  /\ gl = GLInit
  /\ textures = {}
  /\ queue = <<>>
  /\ event = [type |-> "unset", key |-> "unset", mouse_x |-> 0, mouse_y |-> 0]
  /\ main = [pc |-> "start", is_loop |-> TRUE]
  /\ last = [op |-> "new"]

\* a GL context is current and its functions are loaded
Running == gl.loaded /\ sdl.context = "live"

\* engine_impl::init
init ==
  /\ last.op = "new"
  /\ \E fullscreen \in BOOLEAN, o \in InitOutcomes :
       \E r \in {init_result(engine, sdl, gl, 800, 600, fullscreen, o)} :
          /\ engine' = r.engine
          /\ sdl' = r.sdl
          /\ gl' = r.gl
          /\ last' = [op |-> "init", outcome |-> o, ret |-> r.ret, log |-> r.log,
                      cerr |-> r.cerr]
  /\ UNCHANGED <<textures, queue, event, main>>

\* engine_impl::create_texture
create_texture ==
  /\ Running
  /\ gl.ntex < MaxTextures
  /\ \E d \in DecodeOutcomes :
       \E r \in {Run(gl, <<>>, create_texture_calls(gl, "res/black-horse.png", d))},
          texture_object \in {create_texture_object(gl, d)} :
          /\ gl' = r.gl
          /\ textures' = textures \cup {texture_object}
          /\ last' = [op |-> "create_texture", decoded |-> d,
                      ret |-> [null |-> FALSE, object |-> texture_object],
                      log |-> r.log,
                      cerr |-> IF d.data = "null"
                               THEN <<"error: Failed to load texture">> ELSE <<>>]
  /\ UNCHANGED <<engine, sdl, queue, event, main>>

\* engine_impl::render(vertex_buffer)
render ==
  /\ Running
  /\ \E vertex_buffer \in VertexBuffers :
       \E t \in PointerOutcomes(vertex_buffer) :
         \E r \in {Run(gl, <<>>, render_calls(engine, vertex_buffer, t))} :
            /\ gl' = r.gl
            /\ last' = [op |-> "render", vertex_buffer |-> vertex_buffer, t |-> t,
                        dereferenced |-> first_vertex_evaluated(vertex_buffer),
                        log |-> r.log]
  /\ UNCHANGED <<engine, sdl, textures, queue, event, main>>

\* engine_impl::render(vertex_buffer, tx)
render_texture ==
  /\ Running
  /\ \E vertex_buffer \in VertexBuffers, tx \in textures :
       \E t \in PointerOutcomes(vertex_buffer) :
         \E r \in {Run(gl, <<>>, render_texture_calls(engine, gl, vertex_buffer, tx, t))} :
            /\ gl' = r.gl
            /\ last' = [op |-> "render_texture", vertex_buffer |-> vertex_buffer,
                        tx |-> tx, t |-> t,
                        dereferenced |-> first_vertex_evaluated(vertex_buffer),
                        log |-> r.log]
  /\ UNCHANGED <<engine, sdl, textures, queue, event, main>>

\* engine_impl::swap_buffers
swap_buffers ==
  /\ Running
  /\ \E r \in {Run(gl, <<>>, swap_buffers_calls)} :
        /\ gl' = r.gl
        /\ last' = [op |-> "swap_buffers", log |-> r.log]
  /\ UNCHANGED <<engine, sdl, textures, queue, event, main>>

\* engine_impl::destroy
destroy ==
  /\ Running
  /\ sdl' = [sdl EXCEPT !.context = "deleted", !.window = "destroyed", !.inited = FALSE]
  /\ last' = [op |-> "destroy"]
  /\ UNCHANGED <<engine, gl, textures, queue, event, main>>

Next ==
  \/ init
  \/ create_texture
  \/ render
  \/ render_texture
  \/ swap_buffers
  \/ destroy

Spec == Init /\ [][Next]_vars

----------------------------------------------------------------------------
(* class engine_impl: read_input, and the SDL event queue.                 *)

\* SDL key codes: the ones read_input names, and two it does not
MappedKeys == {"SDLK_w", "SDLK_UP", "SDLK_s", "SDLK_DOWN", "SDLK_a", "SDLK_LEFT",
               "SDLK_d", "SDLK_RIGHT", "SDLK_ESCAPE", "SDLK_SPACE", "SDLK_KP_ENTER",
               "SDLK_RETURN"}

OtherKeys == {"SDLK_q", "SDLK_RETURN2"}

Keys == MappedKeys \cup OtherKeys

\* pointer positions SDL reports
Positions == {<<7, 9>>}

SDLEvent(type, sym, pos) == [type |-> type, sym |-> sym, x |-> pos[1], y |-> pos[2]]

\* the events the platform can put in the queue
PlatformEvents ==
  {SDLEvent(t, "", <<0, 0>>) : t \in {"SDL_QUIT", "SDL_WINDOWEVENT"}}
  \cup {SDLEvent(t, "", p) :
          t \in {"SDL_MOUSEMOTION", "SDL_MOUSEBUTTONUP", "SDL_MOUSEBUTTONDOWN"},
          p \in Positions}
  \cup {SDLEvent(t, k, <<0, 0>>) : t \in {"SDL_KEYDOWN", "SDL_KEYUP"}, k \in Keys}

\* an if-chain whose second test names the up arrow again
key_of_down_is_top(sym) ==
  IF sym = "SDLK_w" \/ sym = "SDLK_UP" \/ sym = "SDLK_DOWN" THEN "top"
  ELSE IF sym = "SDLK_s" THEN "bottom"
  ELSE IF sym = "SDLK_a" \/ sym = "SDLK_LEFT" THEN "left"
  ELSE IF sym = "SDLK_d" \/ sym = "SDLK_RIGHT" THEN "right"
  ELSE IF sym = "SDLK_ESCAPE" THEN "escape"
  ELSE IF sym = "SDLK_SPACE" THEN "space"
  ELSE IF sym = "SDLK_KP_ENTER" \/ sym = "SDLK_RETURN" THEN "enter"
  ELSE "undefined_key"

\* the if-chain of read_input over e.key.keysym.sym
key_of(sym) ==
  IF sym = "SDLK_w" \/ sym = "SDLK_UP" THEN "top"
  ELSE IF sym = "SDLK_s" \/ sym = "SDLK_DOWN" THEN "bottom"
  ELSE IF sym = "SDLK_a" \/ sym = "SDLK_LEFT" THEN "left"
  ELSE IF sym = "SDLK_d" \/ sym = "SDLK_RIGHT" THEN "right"
  ELSE IF sym = "SDLK_ESCAPE" THEN "escape"
  ELSE IF sym = "SDLK_SPACE" THEN "space"
  ELSE IF sym = "SDLK_KP_ENTER" \/ sym = "SDLK_RETURN" THEN "enter"
  ELSE "undefined_key"

\* the type read_input gives a key event
type_of(sdl_type) == IF sdl_type = "SDL_KEYDOWN" THEN "pressed" ELSE "reliased"

\* read_input after SDL_PollEvent returned e: the caller's event and the result
translate(e, ev) ==
  IF e.type = "SDL_QUIT"
  THEN [ret |-> TRUE, event |-> [ev EXCEPT !.type = "quit"]]
  ELSE IF e.type = "SDL_MOUSEMOTION"
  THEN [ret |-> TRUE,
        event |-> [ev EXCEPT !.type = "mouse_motion", !.mouse_x = e.x, !.mouse_y = e.y]]
  ELSE IF e.type = "SDL_MOUSEBUTTONUP"
  THEN [ret |-> TRUE,
        event |-> [ev EXCEPT !.type = "mouse_click", !.mouse_x = e.x, !.mouse_y = e.y]]
  ELSE IF e.type = "SDL_KEYDOWN" \/ e.type = "SDL_KEYUP"
  THEN [ret |-> TRUE,
        event |-> [ev EXCEPT !.type = type_of(e.type), !.key = key_of(e.sym)]]
  ELSE [ret |-> FALSE, event |-> ev]

\* engine_impl::read_input on queue q with the caller's event ev
read_input(q, ev) ==
  IF q # <<>>
  THEN LET r == translate(Head(q), ev)
       IN [ret |-> r.ret, event |-> r.event, queue |-> Tail(q), polled |-> Head(q)]
  ELSE [ret |-> FALSE, event |-> ev, queue |-> q,
        polled |-> SDLEvent("none", "", <<0, 0>>)]

----------------------------------------------------------------------------
(* main: the frame loop, from the first poll on, after a startup in which  *)
(* init and create_texture succeeded and the platform queued some input.   *)

vertex_buffer == <<tr0, tr1>>

vertex_buffer_01 == <<tr2, tr3>>

\* main up to the loop: init(800, 600, false) and create_texture
Startup ==
  LET o == [fail |-> "none", shader_01 |-> ShadersOk, shader_02 |-> ShadersOk]
      d == [data |-> "pixels", width |-> 2, height |-> 1]
  IN Let(init_result(EngineInit, SDLInit, GLInit, 800, 600, FALSE, o), LAMBDA i :
     Let(Run(i.gl, <<>>, create_texture_calls(i.gl, "res/black-horse.png", d)), LAMBDA c :
       [engine |-> i.engine, sdl |-> i.sdl, gl |-> c.gl,
        tx |-> create_texture_object(i.gl, d)]))

\* the contents the SDL queue can have when main reaches its loop
PendingInputs == SeqsUpTo(PlatformEvents, MaxQueue)

InitMain ==
  /\ \E s \in {Startup} :
       /\ engine = s.engine
       /\ sdl = s.sdl
       /\ gl = s.gl
       /\ textures = {s.tx}
  /\ queue \in PendingInputs
  /\ event = [type |-> "unset", key |-> "unset", mouse_x |-> 0, mouse_y |-> 0]
  /\ main = [pc |-> "poll", is_loop |-> TRUE]
  /\ last = [op |-> "startup"]

\* one turn of the inner while: read_input and the switch on e.type
MainPoll ==
  /\ main.pc = "poll"
  /\ \E r \in {read_input(queue, event)} :
        /\ queue' = r.queue
        /\ event' = r.event
        /\ main' = IF r.ret
                   THEN [main EXCEPT !.is_loop = IF r.event.type = "quit" THEN FALSE ELSE @]
                   ELSE [main EXCEPT !.pc = "frame"]
        /\ last' = [op |-> "read_input", ret |-> r.ret, polled |-> r.polled,
                    before |-> Len(queue), after |-> Len(r.queue)]
  /\ UNCHANGED <<engine, sdl, gl, textures>>

\* the rest of the outer while's body and its condition
MainFrame ==
  /\ main.pc = "frame"
  /\ \E tx \in textures :
       \E r1 \in {Run(gl, <<>>, render_calls(engine, vertex_buffer, "v[0]"))} :
         \E r2 \in {Run(r1.gl, r1.log,
                        render_texture_calls(engine, r1.gl, vertex_buffer_01, tx, "v[0]"))} :
           \E r3 \in {Run(r2.gl, r2.log, swap_buffers_calls)} :
              /\ gl' = r3.gl
              /\ last' = [op |-> "frame", log |-> r3.log]
  /\ main' = [main EXCEPT !.pc = IF main.is_loop THEN "poll" ELSE "exit"]
  /\ UNCHANGED <<engine, sdl, textures, queue, event>>

\* engine->destroy() and return
MainExit ==
  /\ main.pc = "exit"
  /\ sdl' = [sdl EXCEPT !.context = "deleted", !.window = "destroyed", !.inited = FALSE]
  /\ main' = [main EXCEPT !.pc = "done"]
  /\ last' = [op |-> "destroy"]
  /\ UNCHANGED <<engine, gl, textures, queue, event>>

NextMain ==
  \/ MainPoll
  \/ MainFrame
  \/ MainExit

SpecMain == InitMain /\ [][NextMain]_vars

----------------------------------------------------------------------------
(* Properties.                                                             *)

IsRender == last.op \in {"render", "render_texture"}

\* the positions of the calls of f in the last operation's log
CallsOf(f) == {i \in 1..Len(last.log) : last.log[i].call.f = f}

IsGLCall(c) == SubSeq(c.f, 1, 2) = "gl"

\* C1: a draw of an empty triangle sequence returns, has not evaluated or
\* read anything through the sequence's storage, and has drawn zero vertices.
C1_EmptyDrawLeavesStorageAlone ==
  (IsRender /\ last.vertex_buffer = <<>>) =>
     /\ ~last.dereferenced
     /\ \A i \in CallsOf("glBufferData") \cup CallsOf("glBufferSubData") :
          last.log[i].call.size = 0
     /\ \A i \in CallsOf("glDrawArrays") : last.log[i].call.count = 0

\* C2: when the decode fails, create_texture returns an error and no texture
\* object, and has issued no GL call: no handle, no upload, no mipmaps.
C2_FailedDecodeMakesNoTexture ==
  (last.op = "create_texture" /\ last.decoded.data = "null") =>
     /\ last.ret.null
     /\ \A i \in 1..Len(last.log) : ~IsGLCall(last.log[i].call)

\* a shader construction in which a stage did not compile or the link failed
ShaderFailed(o) == ~o.vertex \/ ~o.fragment \/ ~o.program \/ ~o.link

\* the program of shader object s can be made current
Usable(s) == s.program \in DOMAIN gl.progs /\ gl.progs[s.program].linked

\* C3: when a stage fails to compile or the link fails, the failure reaches
\* the caller: init does not report success, and no unusable program is
\* installed in the engine for use() or a draw to pick up.
C3_ShaderFailureIsReported ==
  /\ (last.op = "init" /\ last.outcome.fail = "none"
      /\ (ShaderFailed(last.outcome.shader_01) \/ ShaderFailed(last.outcome.shader_02)))
       => ~last.ret
  /\ \A k \in 1..Len(engine.shaders) : Usable(engine.shaders[k])

\* C4: no attribute slot is left enabled when a draw call returns, and the
\* untextured path never enables slot 2.
C4_SlotsDisabledOnReturn ==
  /\ gl.enabled = {}
  /\ last.op = "render" => \A i \in 1..Len(last.log) : 2 \notin last.log[i].enabled

\* a textured draw has returned, and had slots 0, 1 and 2 enabled at its draw
C4_Witness ==
  /\ last.op = "render_texture"
  /\ \E i \in CallsOf("glDrawArrays") : last.log[i].enabled = {0, 1, 2}

\* C5: read_input removes at most one event per call and returns false only
\* when the queue was empty at the call, so the poll loop of main, which runs
\* until read_input returns false, ends with the queue empty.
C5_FalseOnlyWhenEmpty ==
  last.op = "read_input" =>
     /\ last.before - last.after <= 1
     /\ ~last.ret => last.before = 0
     /\ ~last.ret => last.after = 0

\* the key the mapping table of the event translator gives a platform key
TableKey(sym) ==
  CASE sym \in {"SDLK_UP", "SDLK_w"} -> "top"
    [] sym \in {"SDLK_DOWN", "SDLK_s"} -> "bottom"
    [] sym \in {"SDLK_LEFT", "SDLK_a"} -> "left"
    [] sym \in {"SDLK_RIGHT", "SDLK_d"} -> "right"
    [] sym = "SDLK_ESCAPE" -> "escape"
    [] sym = "SDLK_SPACE" -> "space"
    [] sym \in {"SDLK_RETURN", "SDLK_KP_ENTER"} -> "enter"
    [] OTHER -> "undefined_key"

\* C6: for every key and direction read_input reports an event whose type is
\* pressed for key down and released for key up and whose key is the one the
\* mapping table gives, whatever the caller's event held before.
C6_KeyTranslation ==
  (last.op = "read_input" /\ last.polled.type \in {"SDL_KEYDOWN", "SDL_KEYUP"}) =>
     /\ last.ret
     /\ event.type = (IF last.polled.type = "SDL_KEYDOWN" THEN "pressed" ELSE "reliased")
     /\ event.key = TableKey(last.polled.sym)

\* the release of the down arrow was the one queued event and gave bottom
C6_Witness ==
  /\ last.op = "read_input"
  /\ last.polled = SDLEvent("SDL_KEYUP", "SDLK_DOWN", <<0, 0>>)
  /\ last.before = 1
  /\ event.key = "bottom"
  /\ event.type = "reliased"

\* C7: a failed init returns false with the context, the window and the SDL
\* subsystems released, nothing created in GL, and no member of the engine
\* holding the handle of a released window or context.
C7_FailedInitLeavesNothing ==
  (last.op = "init" /\ ~last.ret) =>
     /\ ~sdl.inited
     /\ sdl.window # "live"
     /\ sdl.context # "live"
     /\ gl = GLInit
     /\ engine.shaders = <<>>
     /\ engine.gl_default_vbo = 0
     /\ engine.vertex_attribute_object = 0
     /\ engine.window = "window" => sdl.window = "live"
     /\ engine.context = "context" => sdl.context = "live"

\* C8: at the glDrawArrays of every draw call the current program is the
\* program of the path's shader, and in the textured path the passed texture
\* is bound to the active texture unit and the sampler holds that unit.
C8_ProgramOfThePathAtDraw ==
  /\ last.op = "render" =>
       \A i \in CallsOf("glDrawArrays") :
         last.log[i].current_program = engine.shaders[1].program
  /\ last.op = "render_texture" =>
       /\ \A i \in CallsOf("glDrawArrays") :
            last.log[i].current_program = engine.shaders[2].program
       /\ gl.active_texture \in DOMAIN gl.units
       /\ gl.units[gl.active_texture] = last.tx.textrure_handle
       /\ engine.shaders[2].program \in DOMAIN gl.sampler
       /\ gl.sampler[engine.shaders[2].program] = gl.active_texture

\* the k-th call of f in the last operation's log
Nth(f, k) == CHOOSE i \in CallsOf(f) : Cardinality({j \in CallsOf(f) : j <= i}) = k

\* the attribute list init gives its k-th shader
AttributesOf(k) == IF k = 1 THEN attributes_01 ELSE attributes_02

\* C9: in each shader construction every (index, name) of the attribute list
\* is bound to the program between glCreateProgram and glLinkProgram, no
\* binding follows the link, and a linked program has exactly those bindings.
C9_BindBeforeLink ==
  (last.op = "init" /\ last.ret) =>
     /\ Cardinality(CallsOf("glLinkProgram")) = 2
     /\ \A k \in 1..2 :
          LET created == Nth("glCreateProgram", k)
              linked == Nth("glLinkProgram", k)
              until == IF k = 1 THEN Nth("glCreateProgram", 2) ELSE Len(last.log) + 1
              program == engine.shaders[k].program
              attributes == AttributesOf(k)
          IN /\ created < linked
             /\ \A a \in 1..Len(attributes) :
                  \E i \in CallsOf("glBindAttribLocation") :
                    /\ created < i /\ i < linked
                    /\ last.log[i].call.program = program
                    /\ last.log[i].call.index = attributes[a][1]
                    /\ last.log[i].call.name = attributes[a][2]
             /\ \A i \in CallsOf("glBindAttribLocation") : ~(linked < i /\ i < until)
             /\ Usable(engine.shaders[k]) =>
                  gl.progs[program].attribs = {attributes[a] : a \in 1..Len(attributes)}

\* init succeeded and both programs are linked with their attribute bindings
C9_Witness ==
  /\ last.op = "init"
  /\ last.ret
  /\ \A k \in 1..2 : Usable(engine.shaders[k])
  /\ Cardinality(gl.progs[engine.shaders[2].program].attribs) = 3

PointerCall(i) ==
  [index |-> last.log[i].call.index, size |-> last.log[i].call.size,
   offset |-> last.log[i].call.offset, stride |-> last.log[i].call.stride]

\* the bytes of one vertex record a slot description reads
FieldBytes(a) == a.offset .. (a.offset + 4 * a.size - 1)

\* C11: in both draw paths the layout configured for the draw is slot 0 =
\* 3 floats at byte 0 and slot 1 = 4 floats at byte 12, and in the textured
\* path only also slot 2 = 2 floats at byte 28; every slot has a stride of 36
\* bytes, and the fields do not overlap and fit within the stride.
C11_AttributeLayout ==
  IsRender =>
     LET position == [index |-> 0, size |-> 3, offset |-> 0, stride |-> 36]
         color == [index |-> 1, size |-> 4, offset |-> 12, stride |-> 36]
         texcoord == [index |-> 2, size |-> 2, offset |-> 28, stride |-> 36]
         layout == IF last.op = "render_texture" THEN {position, color, texcoord}
                   ELSE {position, color}
         configured == {PointerCall(i) : i \in CallsOf("glVertexAttribPointer")}
     IN /\ configured = layout
        /\ Cardinality(CallsOf("glVertexAttribPointer")) = Cardinality(layout)
        /\ \A i \in CallsOf("glVertexAttribPointer") :
              /\ last.log[i].error = "GL_NO_ERROR"
              /\ \A d \in CallsOf("glDrawArrays") : i < d
        /\ \A d \in CallsOf("glDrawArrays") :
              last.log[d].enabled = {a.index : a \in layout}
        /\ \A a \in layout :
              gl.pointers[a.index] = [size |-> a.size, stride |-> a.stride,
                                      offset |-> a.offset,
                                      buffer |-> engine.gl_default_vbo]
        /\ \A a \in configured :
              /\ a.stride = VertexFloats * SizeofFloat
              /\ FieldBytes(a) \subseteq 0 .. (a.stride - 1)
        /\ \A a, b \in configured :
              a # b => FieldBytes(a) \cap FieldBytes(b) = {}

\* a textured draw of one triangle has returned, drawn with the three slots
C11_Witness ==
  /\ last.op = "render_texture"
  /\ last.vertex_buffer = <<tr1>>
  /\ \E d \in CallsOf("glDrawArrays") : last.log[d].enabled = {0, 1, 2}
  /\ {0, 1, 2} \subseteq DOMAIN gl.pointers

\* an untextured draw has returned, drawn with slots 0 and 1 only
C11_WitnessUntextured ==
  /\ last.op = "render"
  /\ last.vertex_buffer = <<tr0>>
  /\ \E d \in CallsOf("glDrawArrays") : last.log[d].enabled = {0, 1}

====
